---- MODULE Spec2Model ----
(***************************************************************************)
(* Model of the Open Supply Hub MCP server (src/os_hub_service/server.py): *)
(* the stdio dispatch loop of main(), the session flag of OSHubServer, the *)
(* tool registry (list_tools / call_tool) and the two upstream fetches.    *)
(* The caller and the upstream HTTP service are the environment.           *)
(***************************************************************************)
EXTENDS Integers, Sequences, FiniteSets, TLC

VARIABLES
    read_stream,    \* messages sent by the caller and not yet read by main()
    closed,         \* the caller has closed the input stream
    sent,           \* number of messages the caller has sent so far
    write_stream,   \* every message main() has written, in order
    initialized,    \* app._initialized
    pc,             \* position of main(): "read", "dispatch", "init_sent", "done",
                    \* or "failed" when an exception has left the loop
    message,        \* the loop variable of main(): the message last read
    pre,            \* snapshot taken when `message` was read
    calls           \* every outbound HTTP request made so far, with its reply

vars == <<read_stream, closed, sent, write_stream, initialized, pc, message,
          pre, calls>>

----------------------------------------------------------------------------
(* Bounds *)

\* Messages the caller sends in a run
MaxMsgs == 3

\* Messages the input stream holds before the caller has to wait
MaxPending == 1

----------------------------------------------------------------------------
(* Python values: every value carries its type, so that a non-string       *)
(* argument or a missing params object stays distinguishable.              *)

PyNone == [py |-> "None"]
PyStr(s) == [py |-> "str", v |-> s]
PyInt(n) == [py |-> "int", v |-> n]
PyDict(f) == [py |-> "dict", v |-> f]

EmptyDict == PyDict(<<>>)

\* bool(x): the truth value `not x` tests
Truthy(x) ==
    CASE x.py = "None" -> FALSE
      [] x.py = "str"  -> x.v # ""
      [] x.py = "int"  -> x.v # 0
      [] x.py = "dict" -> DOMAIN x.v # {}

DigitStr == <<"1", "2", "3", "4", "5", "6", "7", "8", "9">>

\* f"{x}": the text an f-string puts in place of x
Format(x) ==
    CASE x.py = "None" -> "None"
      [] x.py = "str"  -> x.v
      [] x.py = "int"  -> IF x.v = 0 THEN "0" ELSE DigitStr[x.v]
      [] x.py = "dict" -> "{...}"

\* Outcome of an evaluation: a value, or a raised exception
Ok(v) == [ok |-> TRUE, val |-> v]
Raise(t, m) == [ok |-> FALSE, exc |-> [type |-> t, msg |-> m]]

\* isinstance(e, ValueError): json.JSONDecodeError derives from ValueError
IsValueError(e) == e.type \in {"ValueError", "JSONDecodeError"}

\* Variant: a handler that catches RuntimeError only
IsRuntimeErrorOnly(e) == e.type = "RuntimeError"

\* isinstance(e, Exception): what `except Exception` catches
IsException(e) ==
    e.type \in {"ValueError", "JSONDecodeError", "RuntimeError", "KeyError", "TypeError",
                "AttributeError", "ClientConnectorError"}

\* str(e); a KeyError prints the repr of its key
StrOfExc(e) ==
    IF e.type = "KeyError" THEN <<"'">> \o e.msg \o <<"'">> ELSE e.msg

\* Variant: a missing key yields None instead of raising
Subscript_lenient(d, k) ==
    CASE d.py = "None" -> Raise("TypeError", <<"'NoneType' object is not subscriptable">>)
      [] d.py = "dict" -> Ok(IF k \in DOMAIN d.v THEN d.v[k] ELSE PyNone)
      [] OTHER -> Raise("TypeError", <<"indices must be integers">>)

\* d[k] on the params object of a request
Subscript(d, k) ==
    CASE d.py = "None" -> Raise("TypeError", <<"'NoneType' object is not subscriptable">>)
      [] d.py = "dict" -> IF k \in DOMAIN d.v THEN Ok(d.v[k])
                          ELSE Raise("KeyError", <<k>>)
      [] OTHER -> Raise("TypeError", <<"indices must be integers">>)

\* d.get(k, default)
DictGet(d, k, default) ==
    IF d.py = "dict"
    THEN Ok(IF k \in DOMAIN d.v THEN d.v[k] ELSE default)
    ELSE Raise("AttributeError", <<"'", d.py, "' object has no attribute 'get'">>)

\* Variant: the data is put in the text block without being serialized
JsonDumpsOmitted(data) == <<data>>

\* json.dumps(data, indent=2)
JsonDumps(data) == <<"json:", data>>

----------------------------------------------------------------------------
(* The upstream HTTP service (environment) *)

API_BASE_URL == "https://staging.opensupplyhub.org/api/facilities"

\* What the upstream may do with a request that reaches it: answer 200 with
\* a JSON body, answer 404, answer 500, be unreachable, or answer 200 with a
\* body that is not JSON.
UpstreamConditions == {"ok", "not_found", "server_error", "unreachable", "bad_body"}

\* JSON documents the upstream may return
Bodies == {"facilities_a", "facilities_b"}

\* response.status
StatusOf(up) ==
    CASE up = "not_found"    -> 404
      [] up = "server_error" -> 500
      [] OTHER               -> 200

StatusStr(n) ==
    CASE n = 200 -> "200"
      [] n = 404 -> "404"
      [] n = 500 -> "500"

\* await response.json()
ResponseJson(up, body) ==
    IF up = "bad_body"
    THEN Raise("JSONDecodeError", <<"Expecting value: line 1 column 1 (char 0)">>)
    ELSE Ok(body)

ConnectError == Raise("ClientConnectorError", <<"Cannot connect to host">>)

\* One outbound request together with what the upstream did with it
HttpCall(url, up, body) ==
    [op |-> "GET", url |-> url, reply |-> up, body |-> IF up = "ok" THEN body ELSE "none"]

----------------------------------------------------------------------------
(* OSHubServer *)

\* OSHubServer.initialize: the liveness probe; res is the outcome, flag the
\* value of _initialized afterwards, made the outbound requests.
Initialize(flag, up) ==
    LET made == <<HttpCall(<<API_BASE_URL, "?q=", "test">>, up, "none")>> IN
    IF up = "unreachable"
    THEN [res |-> ConnectError, flag |-> flag, made |-> made]
    ELSE IF StatusOf(up) # 200
    THEN [res |-> Raise("RuntimeError", <<"Failed to fetch data: ", StatusStr(StatusOf(up))>>),
          flag |-> flag, made |-> made]
    ELSE [res |-> Ok("capabilities"), flag |-> TRUE, made |-> made]

NotInitialized == Raise("RuntimeError", <<"Server is not initialized">>)

\* Variant: fetch_facilities without the check of the flag
fetch_facilities_ungated(flag, query, up, body) ==
    LET made == <<HttpCall(<<API_BASE_URL, "?q=", Format(query)>>, up, body)>> IN
    IF up = "unreachable"
    THEN [res |-> ConnectError, made |-> made]
    ELSE IF StatusOf(up) # 200
    THEN [res |-> Raise("RuntimeError",
                        <<"Failed to fetch data: ", StatusStr(StatusOf(up))>>),
          made |-> made]
    ELSE [res |-> ResponseJson(up, body), made |-> made]

\* OSHubServer.fetch_facilities
fetch_facilities(flag, query, up, body) ==
    IF ~flag
    THEN [res |-> NotInitialized, made |-> <<>>]
    ELSE LET made == <<HttpCall(<<API_BASE_URL, "?q=", Format(query)>>, up, body)>> IN
         IF up = "unreachable"
         THEN [res |-> ConnectError, made |-> made]
         ELSE IF StatusOf(up) # 200
         THEN [res |-> Raise("RuntimeError",
                             <<"Failed to fetch data: ", StatusStr(StatusOf(up))>>),
               made |-> made]
         ELSE [res |-> ResponseJson(up, body), made |-> made]

\* Variant: fetch_facility_by_id without the 404 case
fetch_facility_by_id_no404(flag, os_id, up, body) ==
    IF ~flag
    THEN [res |-> NotInitialized, made |-> <<>>]
    ELSE LET made == <<HttpCall(<<API_BASE_URL, "/", Format(os_id)>>, up, body)>> IN
         IF up = "unreachable"
         THEN [res |-> ConnectError, made |-> made]
         ELSE IF StatusOf(up) # 200
         THEN [res |-> Raise("RuntimeError",
                             <<"Failed to fetch facility details: ", StatusStr(StatusOf(up))>>),
               made |-> made]
         ELSE [res |-> ResponseJson(up, body), made |-> made]

\* Variant: fetch_facility_by_id without the check of the flag
fetch_facility_by_id_ungated(flag, os_id, up, body) ==
    LET made == <<HttpCall(<<API_BASE_URL, "/", Format(os_id)>>, up, body)>> IN
    IF up = "unreachable"
    THEN [res |-> ConnectError, made |-> made]
    ELSE IF StatusOf(up) = 404
    THEN [res |-> Raise("ValueError",
                        <<"Facility with OS ID ", Format(os_id), " not found">>),
          made |-> made]
    ELSE IF StatusOf(up) # 200
    THEN [res |-> Raise("RuntimeError",
                        <<"Failed to fetch facility details: ", StatusStr(StatusOf(up))>>),
          made |-> made]
    ELSE [res |-> ResponseJson(up, body), made |-> made]

\* OSHubServer.fetch_facility_by_id
fetch_facility_by_id(flag, os_id, up, body) ==
    IF ~flag
    THEN [res |-> NotInitialized, made |-> <<>>]
    ELSE LET made == <<HttpCall(<<API_BASE_URL, "/", Format(os_id)>>, up, body)>> IN
         IF up = "unreachable"
         THEN [res |-> ConnectError, made |-> made]
         ELSE IF StatusOf(up) = 404
         THEN [res |-> Raise("ValueError",
                             <<"Facility with OS ID ", Format(os_id), " not found">>),
               made |-> made]
         ELSE IF StatusOf(up) # 200
         THEN [res |-> Raise("RuntimeError",
                             <<"Failed to fetch facility details: ", StatusStr(StatusOf(up))>>),
               made |-> made]
         ELSE [res |-> ResponseJson(up, body), made |-> made]

----------------------------------------------------------------------------
(* Tool registry *)

Tool(name, description, argName, argDescription) ==
    [name |-> name,
     description |-> description,
     inputSchema |-> [type |-> "object",
                      properties |-> <<[name |-> argName, type |-> "string",
                                        description |-> argDescription]>>,
                      required |-> <<argName>>]]

\* Variant: the tools registered in the other order
list_tools_reversed ==
    << Tool("get_facility_details",
            "Get detailed information for a specific facility by OS ID.",
            "os_id", "The Open Supply Hub ID of the facility (e.g., GB123)."),
       Tool("search_facilities",
            "Search for facilities by query in Open Supply Hub.",
            "query", "Query string to search for facilities.") >>

\* list_tools
list_tools ==
    << Tool("search_facilities",
            "Search for facilities by query in Open Supply Hub.",
            "query", "Query string to search for facilities."),
       Tool("get_facility_details",
            "Get detailed information for a specific facility by OS ID.",
            "os_id", "The Open Supply Hub ID of the facility (e.g., GB123).") >>

TextContent(text) == [type |-> "text", text |-> text]

NoMade(res) == [res |-> res, made |-> <<>>]

\* Variant: the search_facilities branch without the check of the query
call_search_facilities_unchecked(arguments, flag, up, body) ==
    LET got == DictGet(arguments, "query", PyStr("")) IN
    IF ~got.ok THEN NoMade(got)
    ELSE LET f == fetch_facilities(flag, got.val, up, body) IN
         IF f.res.ok
         THEN [res |-> Ok(<<TextContent(JsonDumps(f.res.val))>>), made |-> f.made]
         ELSE f

\* call_tool, branch name == "search_facilities"
call_search_facilities(arguments, flag, up, body) ==
    LET got == DictGet(arguments, "query", PyStr("")) IN
    IF ~got.ok THEN NoMade(got)
    ELSE IF ~Truthy(got.val)
    THEN NoMade(Raise("ValueError", <<"Missing 'query' in arguments.">>))
    ELSE LET f == fetch_facilities(flag, got.val, up, body) IN
         IF f.res.ok
         THEN [res |-> Ok(<<TextContent(JsonDumps(f.res.val))>>), made |-> f.made]
         ELSE f

\* call_tool, branch name == "get_facility_details"
call_get_facility_details(arguments, flag, up, body) ==
    LET got == DictGet(arguments, "os_id", PyStr("")) IN
    IF ~got.ok THEN NoMade(got)
    ELSE IF ~Truthy(got.val)
    THEN NoMade(Raise("ValueError", <<"Missing 'os_id' in arguments.">>))
    ELSE LET f == fetch_facility_by_id(flag, got.val, up, body) IN
         IF f.res.ok
         THEN [res |-> Ok(<<TextContent(JsonDumps(f.res.val))>>), made |-> f.made]
         ELSE IF IsValueError(f.res.exc)
         THEN [res |-> Ok(<<TextContent(StrOfExc(f.res.exc))>>), made |-> f.made]
         ELSE [res |-> Raise("RuntimeError",
                             <<"Error fetching facility details: ">> \o StrOfExc(f.res.exc)),
               made |-> f.made]

\* call_tool
call_tool(name, arguments, flag, up, body) ==
    IF name = PyStr("search_facilities")
    THEN call_search_facilities(arguments, flag, up, body)
    ELSE IF name = PyStr("get_facility_details")
    THEN call_get_facility_details(arguments, flag, up, body)
    ELSE NoMade(Raise("ValueError", <<"Unknown tool: ", Format(name)>>))

----------------------------------------------------------------------------
(* Messages *)

JSONRPCRequest(id, method, params) ==
    [root |-> "JSONRPCRequest", id |-> id, method |-> method, params |-> params]

JSONRPCResponse(id, result) ==
    [root |-> "JSONRPCResponse", id |-> id, result |-> result]

JSONRPCError(id, code, text) ==
    [root |-> "JSONRPCError", id |-> id, error |-> [code |-> code, message |-> text]]

\* A well-formed message that is not a request (a notification)
JSONRPCNotification == [root |-> "JSONRPCNotification"]

\* What the transport delivers for a line it could not decode: an object
\* without a `root` attribute
Malformed == [root |-> "None"]

\* Values a caller may put under a tool's argument key
ArgValues == {PyStr(""), PyStr("acme"), PyInt(5)}

\* The `arguments` objects a caller may send for the tool whose key is k
ArgumentsFor(k) == {EmptyDict} \cup {PyDict([x \in {k} |-> v]) : v \in ArgValues}

\* The params of a tools/call naming tool n, whose argument key is k
ParamsFor(n, k) ==
    {PyDict([x \in {"name"} |-> PyStr(n)])}
    \cup {PyDict([name |-> PyStr(n), arguments |-> a]) : a \in ArgumentsFor(k)}

ToolCallParams ==
    {PyNone, PyDict([x \in {"arguments"} |-> EmptyDict]),
     PyDict([x \in {"name"} |-> PyStr("delete_facility")])}
    \cup ParamsFor("search_facilities", "query")
    \cup ParamsFor("get_facility_details", "os_id")

\* The messages the caller may send as its id-th message
Messages(id) ==
    {JSONRPCNotification, Malformed,
     JSONRPCRequest(id, "initialize", PyNone),
     JSONRPCRequest(id, "tools/list", PyNone),
     JSONRPCRequest(id, "ping", PyNone)}
    \cup {JSONRPCRequest(id, "tools/call", p) : p \in ToolCallParams}

\* isinstance(root, JSONRPCRequest)
IsRequest(m) == m.root = "JSONRPCRequest"

\* The result of the initialize response built by main()
InitializeResult ==
    [protocolVersion |-> "2024-11-05",
     capabilities |-> [tools |-> <<"search_facilities">>,
                       resources |-> <<>>,
                       prompts |-> <<"example_prompt">>],
     serverInfo |-> [name |-> "opensupplyhub-server", version |-> "0.1.0"]]

\* tool.model_dump() / content.model_dump(): the fields as a plain object
model_dump(x) == x

ModelDumpAll(xs) == [i \in DOMAIN xs |-> model_dump(xs[i])]

INTERNAL_ERROR == -32603

\* main(), the try block of the tools/call branch: the outcome of
\* call_tool(root.params["name"], root.params.get("arguments", {}))
TryCallTool(root, flag, up, body) ==
    LET name == Subscript(root.params, "name") IN
    IF ~name.ok THEN NoMade(name)
    ELSE LET arguments == DictGet(root.params, "arguments", EmptyDict) IN
         IF ~arguments.ok THEN NoMade(arguments)
         ELSE call_tool(name.val, arguments.val, flag, up, body)

\* Variant: the error answer carries a fixed text instead of str(e)
ToolsCall_fixedText(root, flag, up, body) ==
    LET r == TryCallTool(root, flag, up, body) IN
    IF r.res.ok
    THEN [made |-> r.made, escaped |-> FALSE,
          out |-> JSONRPCResponse(root.id, [content |-> ModelDumpAll(r.res.val)])]
    ELSE [made |-> r.made, escaped |-> FALSE,
          out |-> JSONRPCError(root.id, INTERNAL_ERROR, <<"Internal error">>)]

\* main(), the tools/call branch: the outbound requests made, the message
\* written (out) and whether the failure escapes the except clause
ToolsCall(root, flag, up, body) ==
    LET r == TryCallTool(root, flag, up, body) IN
    IF r.res.ok
    THEN [made |-> r.made, escaped |-> FALSE,
          out |-> JSONRPCResponse(root.id, [content |-> ModelDumpAll(r.res.val)])]
    ELSE IF IsException(r.res.exc)
    THEN [made |-> r.made, escaped |-> FALSE,
          out |-> JSONRPCError(root.id, INTERNAL_ERROR, StrOfExc(r.res.exc))]
    ELSE [made |-> r.made, escaped |-> TRUE, out |-> Malformed]

----------------------------------------------------------------------------
(* State machine *)

Init ==
    /\ read_stream = <<>>
    /\ closed = FALSE
    /\ sent = 0
    /\ write_stream = <<>>
    /\ initialized = FALSE
    /\ pc = "read"
    /\ message = Malformed
    /\ pre = [initialized |-> FALSE, written |-> 0, calls |-> 0, malformed |-> FALSE]
    /\ calls = <<>>

\* The caller sends its next message, when the input stream has room for it
Send ==
    /\ ~closed
    /\ sent < MaxMsgs
    /\ Len(read_stream) < MaxPending
    /\ \E m \in Messages(sent + 1) : read_stream' = Append(read_stream, m)
    /\ sent' = sent + 1
    /\ UNCHANGED <<closed, write_stream, initialized, pc, message, pre, calls>>

\* The caller closes the input stream
CloseInput ==
    /\ ~closed
    /\ closed' = TRUE
    /\ UNCHANGED <<read_stream, sent, write_stream, initialized, pc, message, pre, calls>>

\* The number of messages main() has read so far
NumRead == sent - Len(read_stream)

\* Variant: the next message is read while the current one is still being
\* dispatched
ReadMessage_early ==
    /\ pc \in {"read", "dispatch"}
    /\ read_stream # <<>>
    /\ message' = Head(read_stream)
    /\ read_stream' = Tail(read_stream)
    /\ pre' = [initialized |-> initialized, written |-> Len(write_stream),
               calls |-> Len(calls),
               malformed |-> pre.malformed \/ (NumRead > 0 /\ message = Malformed)]
    /\ pc' = "dispatch"
    /\ UNCHANGED <<closed, sent, write_stream, initialized, calls>>

\* main(): `async for message in read_stream` yields the next message; the
\* snapshot also records whether a malformed message was read before it
ReadMessage ==
    /\ pc = "read"
    /\ read_stream # <<>>
    /\ message' = Head(read_stream)
    /\ read_stream' = Tail(read_stream)
    /\ pre' = [initialized |-> initialized, written |-> Len(write_stream),
               calls |-> Len(calls),
               malformed |-> pre.malformed \/ (NumRead > 0 /\ message = Malformed)]
    /\ pc' = "dispatch"
    /\ UNCHANGED <<closed, sent, write_stream, initialized, calls>>

\* main(): the input stream is exhausted and closed, the loop ends
EndOfStream ==
    /\ pc = "read"
    /\ read_stream = <<>>
    /\ closed
    /\ pc' = "done"
    /\ UNCHANGED <<read_stream, closed, sent, write_stream, initialized, message, pre, calls>>

\* main(): the message is not a JSONRPCRequest, or its method matches no
\* branch of the if/elif chain: the iteration ends without writing
NoBranch ==
    /\ pc = "dispatch"
    /\ \/ ~IsRequest(message)
       \/ /\ IsRequest(message)
          /\ message.method \notin {"initialize", "tools/list", "tools/call"}
    /\ pc' = "read"
    /\ UNCHANGED <<read_stream, closed, sent, write_stream, initialized, message, pre, calls>>

\* main(), branch "initialize": build the response and send it
HandleInitialize ==
    /\ pc = "dispatch"
    /\ IsRequest(message)
    /\ message.method = "initialize"
    /\ write_stream' = Append(write_stream, JSONRPCResponse(message.id, InitializeResult))
    /\ pc' = "init_sent"
    /\ UNCHANGED <<read_stream, closed, sent, initialized, message, pre, calls>>

\* Variant: the flag is flipped instead of set
SetInitialized_flip ==
    /\ pc = "init_sent"
    /\ initialized' = ~initialized
    /\ pc' = "read"
    /\ UNCHANGED <<read_stream, closed, sent, write_stream, message, pre, calls>>

\* Variant: the assignment after the send is missing
SetInitialized_missing ==
    /\ pc = "init_sent"
    /\ initialized' = initialized
    /\ pc' = "read"
    /\ UNCHANGED <<read_stream, closed, sent, write_stream, message, pre, calls>>

\* main(), branch "initialize", after the send: app._initialized = True
SetInitialized ==
    /\ pc = "init_sent"
    /\ initialized' = TRUE
    /\ pc' = "read"
    /\ UNCHANGED <<read_stream, closed, sent, write_stream, message, pre, calls>>

\* Variant: answering tools/list also marks the session initialized
HandleToolsList_marks ==
    /\ pc = "dispatch"
    /\ IsRequest(message)
    /\ message.method = "tools/list"
    /\ write_stream' = Append(write_stream,
                              JSONRPCResponse(message.id, [tools |-> ModelDumpAll(list_tools)]))
    /\ initialized' = TRUE
    /\ pc' = "read"
    /\ UNCHANGED <<read_stream, closed, sent, message, pre, calls>>

\* main(), branch "tools/list"
HandleToolsList ==
    /\ pc = "dispatch"
    /\ IsRequest(message)
    /\ message.method = "tools/list"
    /\ write_stream' = Append(write_stream,
                              JSONRPCResponse(message.id, [tools |-> ModelDumpAll(list_tools)]))
    /\ pc' = "read"
    /\ UNCHANGED <<read_stream, closed, sent, initialized, message, pre, calls>>

\* main(), branch "tools/call"
HandleToolsCall ==
    /\ pc = "dispatch"
    /\ IsRequest(message)
    /\ message.method = "tools/call"
    /\ \E up \in UpstreamConditions, body \in Bodies :
          LET r == ToolsCall(message, initialized, up, body) IN
          /\ calls' = calls \o r.made
          /\ write_stream' = IF r.escaped THEN write_stream
                                           ELSE Append(write_stream, r.out)
          /\ pc' = IF r.escaped THEN "failed" ELSE "read"
    /\ UNCHANGED <<read_stream, closed, sent, initialized, message, pre>>

Next ==
    \/ Send
    \/ CloseInput
    \/ ReadMessage
    \/ EndOfStream
    \/ NoBranch
    \/ HandleInitialize
    \/ SetInitialized
    \/ HandleToolsList
    \/ HandleToolsCall

Spec == Init /\ [][Next]_vars

----------------------------------------------------------------------------
(* Transport failures: the same loop on streams that can break *)

\* main(): `async for message in read_stream` raises; the exception is
\* logged and re-raised out of main()
ReadFails ==
    /\ pc = "read"
    /\ pc' = "failed"
    /\ UNCHANGED <<read_stream, closed, sent, write_stream, initialized, message, pre, calls>>

\* main(), branch "initialize": write_stream.send raises, so the assignment
\* after it is not reached
InitializeSendFails ==
    /\ pc = "dispatch"
    /\ IsRequest(message)
    /\ message.method = "initialize"
    /\ pc' = "failed"
    /\ UNCHANGED <<read_stream, closed, sent, write_stream, initialized, message, pre, calls>>

\* main(), branch "tools/list": write_stream.send raises
ToolsListSendFails ==
    /\ pc = "dispatch"
    /\ IsRequest(message)
    /\ message.method = "tools/list"
    /\ pc' = "failed"
    /\ UNCHANGED <<read_stream, closed, sent, write_stream, initialized, message, pre, calls>>

\* main(), branch "tools/call": the send of the answer raises; when it is
\* the send in the try block, the except clause sends the error, which raises
\* again and leaves the loop
ToolsCallSendFails ==
    /\ pc = "dispatch"
    /\ IsRequest(message)
    /\ message.method = "tools/call"
    /\ \E up \in UpstreamConditions, body \in Bodies :
          calls' = calls \o ToolsCall(message, initialized, up, body).made
    /\ pc' = "failed"
    /\ UNCHANGED <<read_stream, closed, sent, write_stream, initialized, message, pre>>

NextFaults ==
    \/ Next
    \/ ReadFails
    \/ InitializeSendFails
    \/ ToolsListSendFails
    \/ ToolsCallSendFails

SpecFaults == Init /\ [][NextFaults]_vars

TypeOK ==
    /\ sent \in 0..MaxMsgs
    /\ closed \in BOOLEAN
    /\ initialized \in BOOLEAN
    /\ pc \in {"read", "dispatch", "init_sent", "done", "failed"}
    /\ Len(read_stream) <= MaxPending
    /\ Len(write_stream) <= sent
    /\ Len(calls) <= sent

----------------------------------------------------------------------------
(* Vocabulary of the properties *)

\* main() has finished the iteration for `message`
Finished == pc \in {"read", "done"}

\* `message` is a request with this method and its iteration is finished
Handled(method) == Finished /\ IsRequest(message) /\ message.method = method

\* The messages written, and the outbound requests made, since `message`
\* was read
Written == SubSeq(write_stream, pre.written + 1, Len(write_stream))
Made == SubSeq(calls, pre.calls + 1, Len(calls))

IsResponse(m) == m.root = "JSONRPCResponse"
IsErrorResponse(m) == m.root = "JSONRPCError"

\* Exactly one message was written for `message`, and it bears its id
OneAnswer == Len(Written) = 1 /\ Written[1].id = message.id

HasName(m) == m.params.py = "dict" /\ "name" \in DOMAIN m.params.v

\* m is a tools/call naming tool n
CallsTool(m, n) ==
    /\ IsRequest(m)
    /\ m.method = "tools/call"
    /\ HasName(m)
    /\ m.params.v.name = PyStr(n)

HasArg(m, k) ==
    /\ "arguments" \in DOMAIN m.params.v
    /\ k \in DOMAIN m.params.v.arguments.v

Arg(m, k) == m.params.v.arguments.v[k]

NonEmptyStr(x) == x.py = "str" /\ x.v # ""

RegisteredNames == {list_tools[i].name : i \in DOMAIN list_tools}

\* The upstream replies for which the probe of OSHubServer.initialize fails
ProbeFails(reply) == ~Initialize(FALSE, reply).res.ok

----------------------------------------------------------------------------
(* Properties *)

\* C1: every Request the dispatch loop has read, whatever its method, causes
\* exactly one message to be written, a Response or an ErrorResponse, and that
\* message carries the identifier of the Request.
C1_OneAnswerPerRequest ==
    (Finished /\ IsRequest(message)) =>
        /\ OneAnswer
        /\ IsResponse(Written[1]) \/ IsErrorResponse(Written[1])

\* C2: a Request whose method is none of initialize, tools/list, tools/call is
\* answered with an ErrorResponse carrying its identifier and the "method not
\* found" code; it is never silently dropped.
C2_UnknownMethodAnswered ==
    (/\ Finished
     /\ IsRequest(message)
     /\ message.method \notin {"initialize", "tools/list", "tools/call"}) =>
        /\ OneAnswer
        /\ IsErrorResponse(Written[1])
        /\ Written[1].error.code = -32601

\* C3: session gating: a tools/call processed while the session is still
\* uninitialized is answered with an ErrorResponse, whatever the tool name
\* and the arguments, and never with a successful Response.
C3_SessionGating ==
    (Handled("tools/call") /\ ~pre.initialized) =>
        /\ OneAnswer
        /\ IsErrorResponse(Written[1])

\* C3 witness: an uninitialized session has answered a search_facilities call
\* that carries a usable query
C3_Witness ==
    /\ Handled("tools/call")
    /\ ~pre.initialized
    /\ CallsTool(message, "search_facilities")
    /\ HasArg(message, "query")
    /\ NonEmptyStr(Arg(message, "query"))
    /\ Len(Written) = 1

\* C4: handling an initialize Request performs one liveness probe against the
\* upstream, and if the probe fails the Request is answered with an
\* ErrorResponse and the initialized flag is still false afterwards.
C4_InitializeProbes ==
    Handled("initialize") =>
        /\ Len(Made) = 1
        /\ Made[1].url = <<API_BASE_URL, "?q=", "test">>
        /\ ProbeFails(Made[1].reply) =>
              /\ OneAnswer
              /\ IsErrorResponse(Written[1])
              /\ initialized = pre.initialized

\* C5: the session is monotonic: once the initialized flag is true it is true
\* in every later state, whatever messages follow.
C5_InitializedIsStable == [][initialized => initialized']_vars

\* C5 witness: an initialized session has handled a further initialize
C5_Witness ==
    /\ Handled("initialize")
    /\ pre.initialized
    /\ initialized

\* C6: a tools/call naming a tool that is not registered is answered with an
\* ErrorResponse bearing its identifier, in both session states, and the loop
\* goes on: it has not failed, and it ends only when the input stream is
\* closed and drained.
C6_UnknownTool ==
    /\ pc # "failed"
    /\ pc = "done" => (closed /\ read_stream = <<>>)
    /\ (/\ Handled("tools/call")
        /\ HasName(message)
        /\ message.params.v.name \notin {PyStr(n) : n \in RegisteredNames}) =>
           /\ OneAnswer
           /\ IsErrorResponse(Written[1])
           /\ Written[1].error.message = <<"Unknown tool: ", Format(message.params.v.name)>>

\* C6 witness: the call of an unregistered tool was answered with an error
\* and a later request has been answered after it
C6_Witness ==
    \E i \in DOMAIN write_stream :
        /\ IsErrorResponse(write_stream[i])
        /\ write_stream[i].error.message = <<"Unknown tool: ", "delete_facility">>
        /\ i < Len(write_stream)
        /\ write_stream[Len(write_stream)].id > write_stream[i].id

\* C7: in an initialized session, get_facility_details with a non-empty os_id
\* that the upstream reports as not found (404) is answered with a successful
\* Response whose content is one text block holding the not-found message.
C7_NotFoundIsContent ==
    (/\ Handled("tools/call")
     /\ pre.initialized
     /\ CallsTool(message, "get_facility_details")
     /\ HasArg(message, "os_id")
     /\ NonEmptyStr(Arg(message, "os_id"))
     /\ Len(Made) = 1
     /\ Made[1].reply = "not_found") =>
        Written = <<JSONRPCResponse(message.id,
                      [content |-> <<[type |-> "text",
                                      text |-> <<"Facility with OS ID ",
                                                 Arg(message, "os_id").v,
                                                 " not found">>]>>])>>

\* C7 witness: such a lookup has been answered
C7_Witness ==
    /\ Handled("tools/call")
    /\ pre.initialized
    /\ CallsTool(message, "get_facility_details")
    /\ Len(Made) = 1
    /\ Made[1].reply = "not_found"
    /\ Made[1].url = <<API_BASE_URL, "/", "acme">>
    /\ Len(Written) = 1

\* C8: search_facilities whose arguments lack the query is answered with an
\* ErrorResponse whose message cites the missing argument, and no outbound
\* request is made while it is processed, in both session states.
C8_MissingQuery ==
    (/\ Handled("tools/call")
     /\ CallsTool(message, "search_facilities")
     /\ ~HasArg(message, "query")) =>
        /\ OneAnswer
        /\ IsErrorResponse(Written[1])
        /\ Written[1].error.message = <<"Missing 'query' in arguments.">>
        /\ Made = <<>>

\* C8 witness: an initialized session has answered search_facilities with
\* arguments = {}
C8_Witness ==
    /\ Handled("tools/call")
    /\ pre.initialized
    /\ CallsTool(message, "search_facilities")
    /\ "arguments" \in DOMAIN message.params.v
    /\ message.params.v.arguments = EmptyDict
    /\ Len(Written) = 1

\* An initialize Request was answered with a Response before `message` was read
InitializeAnswered ==
    \E i \in 1..pre.written :
        /\ IsResponse(write_stream[i])
        /\ "serverInfo" \in DOMAIN write_stream[i].result

\* C9: after an initialize Request was answered with a Response,
\* search_facilities with a non-empty string query makes exactly one outbound
\* search request, and when that search succeeds the call is answered with a
\* Response bearing its identifier whose content is exactly one text block
\* holding the serialized upstream result.
C9_SearchSucceeds ==
    (/\ Handled("tools/call")
     /\ InitializeAnswered
     /\ CallsTool(message, "search_facilities")
     /\ HasArg(message, "query")
     /\ NonEmptyStr(Arg(message, "query"))) =>
        /\ Len(Made) = 1
        /\ Made[1].url = <<API_BASE_URL, "?q=", Arg(message, "query").v>>
        /\ Made[1].reply = "ok" =>
              Written = <<JSONRPCResponse(message.id,
                            [content |-> <<[type |-> "text",
                                            text |-> <<"json:", Made[1].body>>]>>])>>

\* C9 witness: such a search has succeeded and been answered
C9_Witness ==
    /\ Handled("tools/call")
    /\ InitializeAnswered
    /\ CallsTool(message, "search_facilities")
    /\ Len(Made) = 1
    /\ Made[1].reply = "ok"
    /\ Made[1].body = "facilities_b"
    /\ Len(Written) = 1

\* The tool names of a tools/list result, in order
ListedNames(result) == [i \in DOMAIN result.tools |-> result.tools[i].name]

\* C10: a tools/list Request is answered with a Response, before and after
\* initialize, that lists exactly the registered tools in registration order,
\* search_facilities then get_facility_details, and every tools/list of a
\* run gets the same listing.
C10_ToolsList ==
    /\ Handled("tools/list") =>
          /\ OneAnswer
          /\ IsResponse(Written[1])
          /\ ListedNames(Written[1].result) = <<"search_facilities", "get_facility_details">>
    /\ \A i, j \in DOMAIN write_stream :
          (/\ IsResponse(write_stream[i])
           /\ IsResponse(write_stream[j])
           /\ "tools" \in DOMAIN write_stream[i].result
           /\ "tools" \in DOMAIN write_stream[j].result) =>
              write_stream[i].result = write_stream[j].result

\* C10 witness: tools/list was answered before initialize and again after it
C10_Witness ==
    /\ Handled("tools/list")
    /\ pre.initialized
    /\ Len(Written) = 1
    /\ \E i \in 1..pre.written :
          /\ IsResponse(write_stream[i])
          /\ "tools" \in DOMAIN write_stream[i].result
          /\ \E j \in (i + 1)..pre.written :
                /\ IsResponse(write_stream[j])
                /\ "serverInfo" \in DOMAIN write_stream[j].result

\* `message` is a request whose method has a branch in main()
Answerable(m) == IsRequest(m) /\ m.method \in {"initialize", "tools/list", "tools/call"}

\* The identifiers on the output stream, in order
WrittenIds == [i \in DOMAIN write_stream |-> write_stream[i].id]

\* C11: requests are processed one at a time: the loop reads the next
\* message only when it is back at the top with the answer of the current
\* request written, every write is the answer of the request being processed
\* and bears its identifier, and so the identifiers on the output stream are
\* those of the answered requests in the order they were read.
C11_OneAtATime ==
    [][/\ Len(read_stream') < Len(read_stream) =>
             /\ pc = "read"
             /\ Answerable(message) => OneAnswer
       /\ write_stream' # write_stream =>
             /\ pc = "dispatch"
             /\ IsRequest(message)
             /\ Len(write_stream') = Len(write_stream) + 1
             /\ SubSeq(write_stream', 1, Len(write_stream)) = write_stream
             /\ write_stream'[Len(write_stream')].id = message.id
             /\ \A i \in DOMAIN write_stream : write_stream[i].id < message.id]_vars

\* C11 witness: the first and the third message were answered, in that order,
\* and the second was read between them
C11_Witness ==
    /\ Finished
    /\ WrittenIds = <<1, 3>>
    /\ IsRequest(message)
    /\ message.id = 3

\* C12: when the input stream closes the loop ends cleanly, and only after
\* every Request already read has been answered; a failure of the read itself
\* ends the loop with the failure propagated.  Stated for the last Request
\* read before the clean end.
C12_CleanEndAfterAnswers ==
    pc = "done" =>
        /\ closed
        /\ read_stream = <<>>
        /\ IsRequest(message) => OneAnswer

\* The argument key each registered tool requires
RequiredArg(n) == IF n = "search_facilities" THEN "query" ELSE "os_id"

\* C13: a tools/call of a registered tool whose required argument is absent,
\* or present with a value that is not a string, is answered with an
\* ErrorResponse and no outbound request is made for it.
C13_ArgumentsValidated ==
    \A n \in RegisteredNames :
        (/\ Handled("tools/call")
         /\ CallsTool(message, n)
         /\ \/ ~HasArg(message, RequiredArg(n))
            \/ Arg(message, RequiredArg(n)).py # "str") =>
            /\ OneAnswer
            /\ IsErrorResponse(Written[1])
            /\ Made = <<>>

\* C14: a tools/call whose params have no name, or that has no params, is
\* answered with exactly one ErrorResponse bearing its identifier; the error
\* is that of the failed extraction (no tool handler ran), no outbound request
\* is made and the loop is back at its top.
C14_NameAbsent ==
    (/\ IsRequest(message)
     /\ message.method = "tools/call"
     /\ ~HasName(message)
     /\ pc # "dispatch") =>
        /\ Finished
        /\ OneAnswer
        /\ IsErrorResponse(Written[1])
        /\ Written[1].error.message \in {<<"'", "name", "'">>,
                                         <<"'NoneType' object is not subscriptable">>}
        /\ Made = <<>>

\* C14 witness: a tools/call whose params hold arguments but no name was
\* answered
C14_Witness ==
    /\ Handled("tools/call")
    /\ message.params = PyDict([x \in {"arguments"} |-> EmptyDict])
    /\ Len(Written) = 1

\* The text of the failure that processing `message`, a tools/call, raises
\* at the dispatch loop; <<>> when it raises none
FailureText ==
    LET p == message.params
        n == p.v.name
        k == RequiredArg(n.v)
        details == <<"Error fetching facility details: ">>
        lookup == n = PyStr("get_facility_details") IN
    CASE p.py = "None" -> <<"'NoneType' object is not subscriptable">>
      [] ~HasName(message) -> <<"'", "name", "'">>
      [] n.v \notin RegisteredNames -> <<"Unknown tool: ", n.v>>
      [] ~HasArg(message, k) \/ ~Truthy(Arg(message, k)) ->
            IF lookup THEN <<"Missing 'os_id' in arguments.">>
                      ELSE <<"Missing 'query' in arguments.">>
      [] ~pre.initialized ->
            (IF lookup THEN details ELSE <<>>) \o <<"Server is not initialized">>
      [] Made[1].reply = "unreachable" ->
            (IF lookup THEN details ELSE <<>>) \o <<"Cannot connect to host">>
      [] Made[1].reply = "server_error" ->
            IF lookup THEN details \o <<"Failed to fetch facility details: ", "500">>
                      ELSE <<"Failed to fetch data: ", "500">>
      [] Made[1].reply = "not_found" /\ ~lookup -> <<"Failed to fetch data: ", "404">>
      [] Made[1].reply = "bad_body" /\ ~lookup ->
            <<"Expecting value: line 1 column 1 (char 0)">>
      [] OTHER -> <<>>

C16_LookupFailureIsError ==
    (/\ Handled("tools/call")
     /\ pre.initialized
     /\ CallsTool(message, "get_facility_details")
     /\ Len(Made) = 1
     /\ Made[1].reply \in {"server_error", "unreachable", "bad_body"}) =>
        /\ OneAnswer
        /\ IsErrorResponse(Written[1])

\* C17: a malformed inbound message is skipped: nothing is written for it,
\* the flag is unchanged, the loop has not failed, and every well-formed
\* Request read after it is still answered.
C17_MalformedSkipped ==
    /\ pc # "failed"
    /\ (Finished /\ NumRead > 0 /\ message = Malformed) =>
          /\ Written = <<>>
          /\ initialized = pre.initialized
    /\ (Finished /\ IsRequest(message) /\ pre.malformed) => OneAnswer

\* An initialize Response is on the output stream
InitializeResponseWritten ==
    \E i \in DOMAIN write_stream :
        /\ IsResponse(write_stream[i])
        /\ "serverInfo" \in DOMAIN write_stream[i].result

\* C18: the flag is false at process start and changes only while an
\* initialize Request is handled, after its Response was written, and only to
\* true: whenever the flag differs from what it was when `message` was read,
\* `message` is an initialize Request that has been answered with a Response;
\* tools/list, tools/call, unknown methods and non-request messages leave it
\* unchanged.
C18_FlagFrame ==
    /\ NumRead = 0 => ~initialized
    /\ initialized # pre.initialized =>
          /\ initialized
          /\ IsRequest(message)
          /\ message.method = "initialize"
          /\ pc \notin {"dispatch", "init_sent"}
          /\ OneAnswer
          /\ IsResponse(Written[1])

\* C18 witness: the flag was false when an initialize was read and is true
\* now that it is handled
C18_Witness ==
    /\ Handled("initialize")
    /\ ~pre.initialized
    /\ initialized

\* C19: while the session is uninitialized no tool invocation reaches the
\* upstream: no outbound request exists while the flag is false, and a
\* tools/call read with the flag false makes none, whatever its tool name and
\* arguments.
C19_NoUpstreamBeforeInitialize ==
    /\ ~initialized => calls = <<>>
    /\ (IsRequest(message) /\ message.method = "tools/call" /\ ~pre.initialized) =>
          Made = <<>>

\* C19 witness: an uninitialized session has answered get_facility_details
\* carrying a usable os_id
C19_Witness ==
    /\ Handled("tools/call")
    /\ ~pre.initialized
    /\ CallsTool(message, "get_facility_details")
    /\ HasArg(message, "os_id")
    /\ NonEmptyStr(Arg(message, "os_id"))
    /\ Len(Written) = 1
    /\ calls = <<>>

\* The flag is false until an initialize Response is written; once it is
\* written the flag is set before the next message is read, so a message
\* read after that Response finds it set, and a tools/call read after it is
\* not rejected as "Server is not initialized"
FlagFollowsResponse ==
    /\ InitializeResponseWritten => (initialized \/ pc = "init_sent")
    /\ ~InitializeResponseWritten => ~initialized
    /\ InitializeAnswered => pre.initialized
    /\ (Handled("tools/call") /\ InitializeAnswered /\ IsErrorResponse(Written[1])) =>
          /\ Written[1].error.message # <<"Server is not initialized">>
          /\ Written[1].error.message #
                <<"Error fetching facility details: ", "Server is not initialized">>

\* C20: the flag is set to true only after the initialize Response has been
\* written and before the next message is read; if writing that Response
\* fails the flag stays false; a tools/call sent after the initialize
\* Response was written is never rejected as "Server is not initialized",
\* under any interleaving of caller and server steps.
C20_FlagAfterResponse ==
    /\ FlagFollowsResponse
    /\ (/\ pc = "failed"
        /\ IsRequest(message)
        /\ message.method = "initialize"
        /\ Written = <<>>) => initialized = pre.initialized

\* C20 witness: a search sent after the initialize Response was written has
\* been answered with a result
C20_Witness ==
    /\ Handled("tools/call")
    /\ InitializeAnswered
    /\ CallsTool(message, "search_facilities")
    /\ Len(Written) = 1
    /\ IsResponse(Written[1])
    /\ WrittenIds = <<1, 2>>

====
